---- MODULE Spec2Model ----
(***************************************************************************)
(* A model of ami/reduce.py: the Reduce class, which drives the            *)
(* interactive AMI `reduce` program through pexpect, keeps a registry of   *)
(* per-file records (self.files) and parses the tool's text output.        *)
(*                                                                         *)
(* Python strings are TLA+ strings; the string methods the code uses       *)
(* (in, strip, split, slicing, float) are operators computed as Python     *)
(* computes them.  An optional value (None or a value) is a sequence of    *)
(* length 0 or 1, so that every field has one shape.                       *)
(***************************************************************************)
EXTENDS Integers, Sequences, FiniteSets, TLC

(***************************************************************************)
(* Python values                                                           *)
(***************************************************************************)
None == << >>

Some(v) == << v >>

IsNone(o) == o = << >>

\* Python 2 ordering of None and numbers: None sorts below every number.
PyLess(a, b) ==
  IF IsNone(b) THEN FALSE
  ELSE IF IsNone(a) THEN TRUE
  ELSE a[1] < b[1]

\* Python 2 max(a, b): the first argument unless the second is larger.
PyMax(a, b) == IF PyLess(a, b) THEN b ELSE a

(***************************************************************************)
(* Python string methods                                                   *)
(***************************************************************************)
Char(s, i) == SubSeq(s, i, i)

\* s[n:]
DropFirst(s, n) == IF n >= Len(s) THEN SubSeq(s, 1, 0) ELSE SubSeq(s, n + 1, Len(s))

\* s[:-n], n > 0
DropLast(s, n) == IF n >= Len(s) THEN SubSeq(s, 1, 0) ELSE SubSeq(s, 1, Len(s) - n)

\* sub in s
StrIn(sub, s) ==
  \E i \in 1..(Len(s) - Len(sub) + 1) : SubSeq(s, i, i + Len(sub) - 1) = sub

\* position of the leftmost occurrence of sub in s, 0 when there is none
StrFind(sub, s) ==
  IF StrIn(sub, s)
  THEN CHOOSE i \in 1..(Len(s) - Len(sub) + 1) :
         /\ SubSeq(s, i, i + Len(sub) - 1) = sub
         /\ \A j \in 1..(i - 1) : SubSeq(s, j, j + Len(sub) - 1) # sub
  ELSE 0

\* s.strip(chars), chars a set of one-character strings
RECURSIVE LStrip(_, _)
LStrip(s, chars) ==
  IF Len(s) > 0 /\ Char(s, 1) \in chars THEN LStrip(DropFirst(s, 1), chars) ELSE s

RECURSIVE RStrip(_, _)
RStrip(s, chars) ==
  IF Len(s) > 0 /\ Char(s, Len(s)) \in chars THEN RStrip(DropLast(s, 1), chars) ELSE s

StripChars(s, chars) == RStrip(LStrip(s, chars), chars)

Whitespace == {" ", "\t", "\n", "\r"}

\* s.strip()
Strip(s) == StripChars(s, Whitespace)

\* s.split(sep, maxsplit) for a non-empty sep; maxsplit < 0 means no limit
RECURSIVE SplitMax(_, _, _)
SplitMax(s, sep, maxsplit) ==
  LET i == StrFind(sep, s) IN
    IF maxsplit = 0 \/ i = 0 THEN << s >>
    ELSE << SubSeq(s, 1, i - 1) >>
           \o SplitMax(DropFirst(s, i + Len(sep) - 1), sep,
                       IF maxsplit < 0 THEN maxsplit ELSE maxsplit - 1)

\* s.split(sep)
Split(s, sep) == SplitMax(s, sep, -1)

\* s.split(): runs of whitespace separate the tokens, no empty token
RECURSIVE Tokens(_)
Tokens(s) ==
  LET t == LStrip(s, Whitespace) IN
    IF Len(t) = 0 THEN << >>
    ELSE LET ends == {i \in 1..Len(t) : Char(t, i) \in Whitespace}
             n == IF ends = {} THEN Len(t) + 1
                  ELSE CHOOSE i \in ends : \A j \in ends : i <= j
         IN << SubSeq(t, 1, n - 1) >> \o Tokens(DropFirst(t, n - 1))

\* list[a:]
ListFrom(l, a) == IF a >= Len(l) THEN << >> ELSE SubSeq(l, a + 1, Len(l))

\* list[a:-b]
ListSlice(l, a, b) == IF a >= Len(l) - b THEN << >> ELSE SubSeq(l, a + 1, Len(l) - b)

Digits == "0123456789"

IsDigit(c) == Len(c) = 1 /\ StrIn(c, Digits)

DigitVal(c) == StrFind(c, Digits) - 1

AllDigits(s) == Len(s) > 0 /\ \A i \in 1..Len(s) : IsDigit(Char(s, i))

RECURSIVE IntOf(_)
IntOf(s) == IF Len(s) = 0 THEN 0 ELSE 10 * IntOf(DropLast(s, 1)) + DigitVal(Char(s, Len(s)))

\* The number of decimal places a float is kept to: values are in thousandths.
FracDigits == 3

RECURSIVE Pow10(_)
Pow10(n) == IF n = 0 THEN 1 ELSE 10 * Pow10(n - 1)

\* float(s) for the decimal notations [+-]ddd, [+-]ddd.ddd, [+-]ddd. and
\* [+-].ddd (at most FracDigits decimal places): Some(value in thousandths),
\* None when float() raises ValueError.
float(s) ==
  LET signed == Len(s) > 0 /\ Char(s, 1) \in {"-", "+"}
      u == IF signed THEN DropFirst(s, 1) ELSE s
      parts == Split(u, ".")
      sign == IF signed /\ Char(s, 1) = "-" THEN -1 ELSE 1
      digitsOrEmpty(p) == Len(p) = 0 \/ AllDigits(p)
  IN  IF Len(parts) = 1 /\ AllDigits(parts[1])
        THEN Some(sign * IntOf(parts[1]) * Pow10(FracDigits))
      ELSE IF /\ Len(parts) = 2
              /\ digitsOrEmpty(parts[1]) /\ digitsOrEmpty(parts[2])
              /\ Len(parts[1]) + Len(parts[2]) > 0
              /\ Len(parts[2]) <= FracDigits
        THEN Some(sign * (IntOf(parts[1]) * Pow10(FracDigits)
                            + IntOf(parts[2]) * Pow10(FracDigits - Len(parts[2]))))
      ELSE None

(***************************************************************************)
(* Results of a call: a value, or the exception it raises                  *)
(***************************************************************************)
Return(v) == [err |-> "ok", val |-> v]

Raise(e) == [err |-> e, val |-> None]

(***************************************************************************)
(* The output parsers                                                      *)
(***************************************************************************)
\* the last whitespace-delimited token of the first 'with calibrator' line, or
\* None (the function falls off its end)
_parse_calibrator(obs_listing) ==
  LET hits == SelectSeq(obs_listing, LAMBDA line : StrIn("with calibrator", line)) IN
    IF Len(hits) = 0 THEN None
    ELSE LET tokens == Tokens(hits[1]) IN Some(tokens[Len(tokens)])

\* the text of the first 'Tracking' line after the fixed-width label and before
\* the trailing five characters of the frame token
CoordsStr(line) == Strip(DropLast(Strip(DropFirst(line, Len("Tracking    : "))), Len("J2000")))

\* the two separators: two spaces when the text holds a '-', three otherwise
CoordsSplit(coords_str) ==
  IF StrIn("-", coords_str) THEN Split(coords_str, "  ") ELSE Split(coords_str, "   ")

_parse_coords(filename, obs_listing) ==
  LET hits == SelectSeq(obs_listing, LAMBDA line : StrIn("Tracking", line)) IN
    IF Len(hits) = 0 THEN Raise("ValueError")
    ELSE LET ra_dec == CoordsSplit(CoordsStr(hits[1])) IN
           IF Len(ra_dec) < 2 THEN Raise("IndexError")
           ELSE Return(Some([ra |-> ra_dec[1], dec |-> ra_dec[2]]))

\* the J2000 warning of _parse_coords: logged, never raised
CoordsWarning(obs_listing) ==
  LET hits == SelectSeq(obs_listing, LAMBDA line : StrIn("Tracking", line)) IN
    Len(hits) > 0 /\ ~StrIn("J2000", hits[1])

\* Python float(t) as a call result
FloatResult(t) == IF IsNone(float(t)) THEN Raise("ValueError") ELSE Return(float(t))

\* the rain parser answering None where it finds no line
_parse_rain_or_none(output_lines) ==
  LET hits == SelectSeq(output_lines,
                       LAMBDA line : StrIn("Mean amplitude correction factor", line)) IN
    IF Len(hits) = 0 THEN Return(None)
    ELSE LET tokens == Tokens(Strip(hits[1])) IN FloatResult(tokens[Len(tokens)])

_parse_rain_results(output_lines) ==
  LET hits == SelectSeq(output_lines,
                       LAMBDA line : StrIn("Mean amplitude correction factor", line)) IN
    IF Len(hits) = 0 THEN Raise("ValueError")
    ELSE LET tokens == Tokens(Strip(hits[1])) IN FloatResult(tokens[Len(tokens)])

\* the tokens holding a '%', over the lines holding both markers, in order
PercentTokens(output_lines) ==
  LET hits == SelectSeq(output_lines,
                       LAMBDA line : StrIn("samples flagged", line) /\ StrIn("Total of", line))
      RECURSIVE Collect(_)
      Collect(ls) ==
        IF Len(ls) = 0 THEN << >>
        ELSE SelectSeq(Tokens(Strip(ls[1])), LAMBDA t : StrIn("%", t)) \o Collect(Tail(ls))
  IN Collect(hits)

\* the flagging parser raising where it finds no percentage
_parse_flagging_or_raise(output_lines) ==
  LET pts == PercentTokens(output_lines) IN
    IF Len(pts) = 0 THEN Raise("ValueError")
    ELSE FloatResult(StripChars(pts[1], {"%"}))

_parse_flagging_results(output_lines) ==
  LET pts == PercentTokens(output_lines) IN
    IF Len(pts) = 0 THEN Return(None)
    ELSE FloatResult(StripChars(pts[1], {"%"}))

_parse_reweight_results(output_lines) ==
  LET hits == SelectSeq(output_lines, LAMBDA line : StrIn("estimated noise", line)) IN
    IF Len(hits) = 0 THEN Raise("ValueError")
    ELSE LET tokens == Tokens(Strip(hits[1])) IN
           IF Len(tokens) < 2 THEN Raise("IndexError")
           ELSE FloatResult(tokens[Len(tokens) - 1])

(***************************************************************************)
(* The registry self.files: a mapping from file name to record.  A record  *)
(* is a defaultdict whose missing keys read as None; the keys are the      *)
(* names of keys.Keys, which are taken to be distinct.                     *)
(***************************************************************************)
FreshRecord ==
  [comment |-> None, pointing |-> None, calibrator |-> None, rain |-> None,
   flagged_max |-> None, flagged_final |-> None, est_noise |-> None,
   group_name |-> None, target_uvfits |-> None, cal_uvfits |-> None]

EmptyFiles == [f \in {} |-> FreshRecord]

\* l.strip('\r').strip(' ').split(' ', 1)
Cols(l) == SplitMax(StripChars(StripChars(l, {"\r"}), {" "}), " ", 1)

\* the first loop without its test: a new record for every name listed
RECURSIVE AddFilesAnew(_, _)
AddFilesAnew(files, file_lines) ==
  IF Len(file_lines) = 0 THEN files
  ELSE LET fname == Cols(file_lines[1])[1] IN
         AddFilesAnew([f \in DOMAIN files \cup {fname} |->
                         IF f = fname THEN FreshRecord ELSE files[f]],
                      Tail(file_lines))

\* the first loop of update_files: a record for every name not yet known
RECURSIVE AddFiles(_, _)
AddFiles(files, file_lines) ==
  IF Len(file_lines) = 0 THEN files
  ELSE LET fname == Cols(file_lines[1])[1]
           added == IF fname \in DOMAIN files THEN files
                    ELSE [f \in DOMAIN files \cup {fname} |->
                            IF f = fname THEN FreshRecord ELSE files[f]]
       IN AddFiles(added, Tail(file_lines))

\* the slice taken with three closing lines for four
FileLinesShort(before) == ListSlice(Split(before, "\n"), 2, 3)

\* file_lines = p.before.split('\n')[2:-4]
FileLines(before) == ListSlice(Split(before, "\n"), 2, 4)

\* the second loop of update_files: the comment of every known name
RECURSIVE AddComments(_, _)
AddComments(files, file_lines) ==
  IF Len(file_lines) = 0 THEN files
  ELSE LET cols == Cols(file_lines[1])
           fname == cols[1]
           noted == IF fname \in DOMAIN files /\ Len(cols) > 1
                    THEN [files EXCEPT ![fname].comment = Some(cols[2])]
                    ELSE files
       IN AddComments(noted, Tail(file_lines))

\* file_lines = p.before.split('\n')[2:]
CommentLines(before) == ListFrom(Split(before, "\n"), 2)

\* The body of get_obs_details after the prompt: the registry it leaves and
\* the exception it raises, if any.
ObsDetails(files, filename, before) ==
  LET obs_lines == ListFrom(Split(before, "\n"), 2)
      coords == _parse_coords(filename, obs_lines)
  IN  IF filename \notin DOMAIN files THEN [err |-> "KeyError", files |-> files]
      ELSE IF coords.err # "ok" THEN [err |-> coords.err, files |-> files]
      ELSE [err |-> "ok",
            files |-> [files EXCEPT ![filename].pointing = coords.val,
                                    ![filename].calibrator = _parse_calibrator(obs_lines)]]

\* The three routes of _parse_command_output, each applied to the registry the
\* route before it left; a route that raises leaves the later ones undone.
RainRoute(st, a, command, output_lines) ==
  IF st.err # "ok" \/ ~StrIn("rain", command) THEN st
  ELSE LET r == _parse_rain_results(output_lines) IN
         IF r.err # "ok" THEN [st EXCEPT !.err = r.err]
         ELSE [st EXCEPT !.files[a].rain = r.val]

\* the stored value overwritten by the parsed one
FlaggedMaxOverwrite(flagging, old) == flagging

FlaggedMaxUpdate(flagging, old) == PyMax(flagging, old)

\* the flagging parser run on the output of every command
FlagRouteAlways(st, a, command, output_lines) ==
  IF st.err # "ok" THEN st
  ELSE LET r == _parse_flagging_results(output_lines) IN
         IF r.err # "ok" THEN [st EXCEPT !.err = r.err]
         ELSE [st EXCEPT !.files[a].flagged_max =
                            FlaggedMaxUpdate(r.val, st.files[a].flagged_max)]

FlagRoute(st, a, command, output_lines) ==
  IF st.err # "ok" \/ ~StrIn("flag", command) THEN st
  ELSE LET r == _parse_flagging_results(output_lines) IN
         IF r.err # "ok" THEN [st EXCEPT !.err = r.err]
         ELSE [st EXCEPT !.files[a].flagged_max =
                            FlaggedMaxUpdate(r.val, st.files[a].flagged_max)]

\* the reweight route clearing est_noise when its parser raises
ReweightRouteClearing(st, a, command, output_lines) ==
  IF st.err # "ok" \/ ~StrIn("reweight", command) THEN st
  ELSE LET r == _parse_reweight_results(output_lines) IN
         IF r.err # "ok" THEN [st EXCEPT !.err = r.err, !.files[a].est_noise = None]
         ELSE [st EXCEPT !.files[a].est_noise = r.val]

ReweightRoute(st, a, command, output_lines) ==
  IF st.err # "ok" \/ ~StrIn("reweight", command) THEN st
  ELSE LET r == _parse_reweight_results(output_lines) IN
         IF r.err # "ok" THEN [st EXCEPT !.err = r.err]
         ELSE [st EXCEPT !.files[a].est_noise = r.val]

\* active_file is None or Some(name); self.files[self.active_file] raises
\* KeyError when the registry has no such key.
_parse_command_output(files, active_file, command, output_lines) ==
  IF IsNone(active_file) \/ active_file[1] \notin DOMAIN files
  THEN [err |-> "KeyError", files |-> files]
  ELSE LET a == active_file[1]
           st0 == [err |-> "ok", files |-> files]
       IN ReweightRoute(FlagRoute(RainRoute(st0, a, command, output_lines),
                                  a, command, output_lines),
                        a, command, output_lines)

(***************************************************************************)
(* group_pointings                                                         *)
(***************************************************************************)
\* The characters of file names in code-point order: Python compares str
\* values character by character on the code points.
Ascii == " +-.0123456789ABCDEFGHIJKLMNOPQRSTUVWXYZ_abcdefghijklmnopqrstuvwxyz"

Ord(c) == StrFind(c, Ascii)

RECURSIVE StrLess(_, _)
StrLess(a, b) ==
  IF Len(b) = 0 THEN FALSE
  ELSE IF Len(a) = 0 THEN TRUE
  ELSE IF Char(a, 1) = Char(b, 1) THEN StrLess(DropFirst(a, 1), DropFirst(b, 1))
  ELSE Ord(Char(a, 1)) < Ord(Char(b, 1))

\* sorted(files)[0] for a non-empty list of names
SortedFirst(names) ==
  LET S == {names[i] : i \in 1..Len(names)} IN
    CHOOSE n \in S : \A m \in S : m = n \/ StrLess(n, m)

\* name = sorted(files)[0].split('-')[0]
GroupName(names) == Split(SortedFirst(names), "-")[1]

Abs(n) == IF n < 0 THEN -n ELSE n

\* 'hh mm ss' or '[-]dd mm ss' in seconds: what AngularCoordinate reads from
\* the text once its blanks are replaced by colons
Sexagesimal(s) ==
  LET neg == Len(s) > 0 /\ Char(s, 1) = "-"
      t == Split(IF neg THEN DropFirst(s, 1) ELSE s, " ")
      v == IntOf(t[1]) * 3600 + IntOf(t[2]) * 60 + IntOf(t[3])
  IN IF neg THEN -v ELSE v

\* right ascension is given in hours (sghms=True): 15 arcseconds a second
RaArcsec(p) == 15 * Sexagesimal(p.ra)

DecArcsec(p) == Sexagesimal(p.dec)

\* The great-circle separation (p0 - p1) lies between the difference of the
\* declinations and that difference plus the difference of the right
\* ascensions; the two agree on a meridian and on the equator.
SepLower(p0, p1) == Abs(DecArcsec(p0) - DecArcsec(p1))

SepUpper(p0, p1) ==
  Abs(DecArcsec(p0) - DecArcsec(p1)) + Abs(RaArcsec(p0) - RaArcsec(p1))

\* (p0 - p1).degrees < tolerance_deg, the tolerance in arcseconds
\* the comparison with <= for <
WithinOrAtTolerance(p0, p1, tolerance) == SepUpper(p0, p1) <= tolerance

WithinTolerance(p0, p1, tolerance) == SepUpper(p0, p1) < tolerance

\* the model of the separation decides the comparison for this pair
SeparationDecided(p0, p1, tolerance) ==
  SepUpper(p0, p1) < tolerance \/ SepLower(p0, p1) >= tolerance

\* The body of the clustering loop for one file f: f is appended to the list
\* of every representative within the tolerance (the loop over the
\* representatives runs to its end), and founds a list of its own when there
\* is none.
AssignFile(gp, files, f, tolerance) ==
  LET file_pointing == files[f].pointing[1]
      hits == {g \in DOMAIN gp : WithinTolerance(g, file_pointing, tolerance)}
  IN  IF hits # {}
      THEN [g \in DOMAIN gp |-> IF g \in hits THEN Append(gp[g], f) ELSE gp[g]]
      ELSE [g \in DOMAIN gp \cup {file_pointing} |->
              IF g = file_pointing
              THEN (IF g \in DOMAIN gp THEN Append(gp[g], f) ELSE << f >>)
              ELSE gp[g]]

\* the clustering loop over the files in iteration order
RECURSIVE Cluster(_, _, _, _)
Cluster(gp, files, order, tolerance) ==
  IF Len(order) = 0 THEN gp
  ELSE Cluster(AssignFile(gp, files, order[1], tolerance), files, Tail(order), tolerance)

NoGroups == [g \in {} |-> << >>]

NoNamedGroups == [n \in {} |-> [files |-> << >>, pointing |-> [ra |-> "", dec |-> ""]]]

\* the naming loop over the representatives in iteration order: a later
\* group of the same name replaces the earlier one
RECURSIVE NameGroups(_, _, _)
NameGroups(named, gp, gorder) ==
  IF Len(gorder) = 0 THEN named
  ELSE LET p == gorder[1]
           name == GroupName(gp[p])
           entry == [files |-> gp[p], pointing |-> p]
       IN NameGroups([n \in DOMAIN named \cup {name} |->
                        IF n = name THEN entry ELSE named[n]],
                     gp, Tail(gorder))

\* the group name written on the first member only
WriteGroupFirst(files, grpname, members) ==
  IF Len(members) = 0 THEN files
  ELSE [files EXCEPT ![members[1]].group_name = Some(grpname)]

\* self.files[f][Keys.group_name] = grpname for the members of one group
RECURSIVE WriteGroup(_, _, _)
WriteGroup(files, grpname, members) ==
  IF Len(members) = 0 THEN files
  ELSE WriteGroup([files EXCEPT ![members[1]].group_name = Some(grpname)],
                  grpname, Tail(members))

\* the write-back loop over the named groups in iteration order
RECURSIVE WriteGroupNames(_, _, _)
WriteGroupNames(files, named, norder) ==
  IF Len(norder) = 0 THEN files
  ELSE WriteGroupNames(WriteGroup(files, norder[1], named[norder[1]].files),
                       named, Tail(norder))

\* the sequences that list every element of S once: the orders in which a
\* dict with the keys S may be iterated
Orders(S) ==
  {o \in [1..Cardinality(S) -> S] : \A i, j \in 1..Cardinality(S) : o[i] = o[j] => i = j}

(***************************************************************************)
(* The state of a Reduce object and of the tool it drives                  *)
(***************************************************************************)
VARIABLES
  files,         \* self.files
  active_file,   \* self.active_file: None or Some(name)
  file_log,      \* self.file_log and self.file_cmd_log are set
  child,         \* the pexpect child: "awaiting" a prompt, or "ready"
  before,        \* self.child.before: the text ahead of the last prompt matched
  pc,            \* the public operation in progress and the prompt it waits for
  result,        \* how the last operation ended: "ok" or the exception raised
  lastop,        \* the last operation that ended
  nsent,         \* the number of lines written to the tool
  last_sent,     \* the last line written to the tool
  stalled,       \* an expect of this object has raised pexpect.TIMEOUT
  named_groups,  \* what the last group_pointings returned
  group_dict,    \* the dict pointing --> files the last group_pointings built
  tool_array     \* the array the tool has selected

vars == << files, active_file, file_log, child, before, pc, result, lastop,
           nsent, last_sent, stalled, named_groups, group_dict, tool_array >>

\* the number of lines written to the tool after which no operation starts,
\* for each of the three specifications
MaxSent == 5

MaxSentParse == 6

MaxSentGroup == 4

MaxSentText == 4

MaxSentWrite == 6

Idle ==
  [op |-> "idle", at |-> "", array |-> "", command |-> "", filename |-> "",
   todo |-> << >>, order |-> << >>, tolerance |-> 0, tgt_path |-> "", cal_path |-> ""]

\* the state as one value, for the operations to transform
Cur ==
  [files |-> files, active_file |-> active_file, file_log |-> file_log,
   child |-> child, before |-> before, pc |-> pc, result |-> result,
   lastop |-> lastop, nsent |-> nsent, last_sent |-> last_sent,
   stalled |-> stalled, named_groups |-> named_groups, group_dict |-> group_dict,
   tool_array |-> tool_array]

Apply(st) ==
  /\ files' = st.files
  /\ active_file' = st.active_file
  /\ file_log' = st.file_log
  /\ child' = st.child
  /\ before' = st.before
  /\ pc' = st.pc
  /\ result' = st.result
  /\ lastop' = st.lastop
  /\ nsent' = st.nsent
  /\ last_sent' = st.last_sent
  /\ stalled' = st.stalled
  /\ named_groups' = st.named_groups
  /\ group_dict' = st.group_dict
  /\ tool_array' = st.tool_array

(***************************************************************************)
(* pexpect                                                                 *)
(***************************************************************************)
\* self.child.sendline(line)
sendline(st, line) ==
  [st EXCEPT !.child = "awaiting", !.nsent = @ + 1, !.last_sent = line,
             !.tool_array = IF line = "set def la" THEN "LA" ELSE @]

\* self.child.expect(self.prompt) is reached: the operation blocks at `at`
expect(st, at) == [st EXCEPT !.pc.at = at]

\* the prompt is matched after the text `out`
Matched(st, out) == [st EXCEPT !.child = "ready", !.before = out]

\* the operation in progress returns to its caller
Returned(st) ==
  [st EXCEPT !.result = "ok", !.lastop = st.pc.op, !.pc = Idle]

\* the operation in progress raises e; a constructor that raises leaves no object
Raised(st, e) ==
  [st EXCEPT !.result = e, !.lastop = st.pc.op,
             !.pc = IF st.pc.op = "__init__" THEN [Idle EXCEPT !.op = "dead"] ELSE Idle]

(***************************************************************************)
(* The operations, up to the prompt each waits for                         *)
(***************************************************************************)
\* switch_to_large_array returning as soon as its line is written
switch_without_expect(st) ==
  Returned([sendline(st, "set def la") EXCEPT !.files = EmptyFiles])

\* switch_to_large_array without self.files = dict()
switch_keeping_files(st) == expect(sendline(st, "set def la"), "set def la")

switch_to_large_array(st) ==
  [expect(sendline(st, "set def la"), "set def la") EXCEPT !.files = EmptyFiles]

update_files(st) == expect(sendline(st, "list files \\ "), "list files")

get_obs_details(st, filename) ==
  [expect(sendline(st, "list observation " \o filename \o " \\ "), "list observation")
     EXCEPT !.pc.filename = filename]

\* self.file_cmd_log is None until set_active_file has run
run_command(st, command) ==
  IF ~st.file_log THEN Raised(st, "AttributeError")
  ELSE [expect(sendline(st, command), "run_command") EXCEPT !.pc.command = command]

run_script(st, script_string) ==
  LET command_list == Split(script_string, "\n") IN
    run_command([st EXCEPT !.pc.todo = Tail(command_list)], command_list[1])

set_active_file(st, filename) ==
  LET name == Strip(filename) IN
    run_command([st EXCEPT !.active_file = Some(name), !.file_log = TRUE,
                           !.pc.filename = name],
                "file " \o name \o " \\ ")

\* os.path.splitext(name)[0]
SplitExtRoot(name) ==
  LET dots == {i \in 2..Len(name) : Char(name, i) = "."} IN
    IF dots = {} THEN name
    ELSE SubSeq(name, 1, (CHOOSE i \in dots : \A j \in dots : j <= i) - 1)

\* os.path.join(output_dir, basename) for a directory without a closing slash
PathJoin(output_dir, basename) == output_dir \o "/" \o basename

\* the basenames that os.tempnam hands out
TgtTemp == "ami_aaaaaa.fits"

CalTemp == "ami_bbbbbb.fits"

write_files(st, rawfile, output_dir) ==
  IF rawfile \notin DOMAIN st.files THEN Raised(st, "KeyError")
  ELSE IF IsNone(st.files[rawfile].calibrator) THEN Raised(st, "TypeError")
  ELSE LET tgt_name == SplitExtRoot(rawfile)
           parts == Split(tgt_name, "-")
           cal_basename == st.files[rawfile].calibrator[1] \o "-"
                             \o parts[Len(parts)] \o "C.fits"
       IN run_command([st EXCEPT !.pc.filename = rawfile,
                                 !.pc.tgt_path = PathJoin(output_dir, tgt_name \o ".fits"),
                                 !.pc.cal_path = PathJoin(output_dir, cal_basename)],
                      "write fits no no all 3-8 all " \o TgtTemp \o " " \o CalTemp \o " \\ ")

\* update_flagging_info sending a command without the word 'flag'
update_flagging_unrouted(st) == run_command(st, "show summary no yes \\ ")

update_flagging_info(st) == run_command(st, "show flagging no yes \\ ")

\* The clustering, naming and write-back of group_pointings, for every order
\* in which the two dicts of groups may be iterated.
GroupingResults(st) ==
  LET gp == Cluster(NoGroups, st.files, st.pc.order, st.pc.tolerance) IN
    UNION {
      LET named == NameGroups(NoNamedGroups, gp, gorder) IN
        { Returned([st EXCEPT !.files = WriteGroupNames(st.files, named, norder),
                              !.named_groups = named, !.group_dict = gp])
          : norder \in Orders(DOMAIN named) }
      : gorder \in Orders(DOMAIN gp) }

\* the first loop inspecting every file, its pointing known or not
InspectAllFrom(st, todo) ==
  IF Len(todo) = 0 THEN GroupingResults(st)
  ELSE { get_obs_details([st EXCEPT !.pc.todo = Tail(todo)], todo[1]) }

\* The first loop of group_pointings from position `todo` of the iteration:
\* the next file without a pointing is inspected; past the last one the
\* grouping runs.
RECURSIVE InspectFrom(_, _)
InspectFrom(st, todo) ==
  IF Len(todo) = 0 THEN GroupingResults(st)
  ELSE IF IsNone(st.files[todo[1]].pointing)
       THEN { get_obs_details([st EXCEPT !.pc.todo = Tail(todo)], todo[1]) }
       ELSE InspectFrom(st, Tail(todo))

group_pointings(st, tolerance, order) ==
  InspectFrom([st EXCEPT !.pc.order = order, !.pc.tolerance = tolerance], order)

(***************************************************************************)
(* The operations, from a matched prompt on                                *)
(***************************************************************************)
\* __init__ after the startup prompt
AfterStartup(st) ==
  LET st1 == [st EXCEPT !.files = EmptyFiles, !.active_file = None] IN
    IF st.pc.array = "LA" THEN switch_to_large_array(st1)
    ELSE IF st.pc.array # "SA" THEN Raised(st1, "ValueError")
    ELSE update_files(st1)

\* switch_to_large_array ends with its expect; __init__ goes on to update_files
AfterSetDefLa(st) ==
  IF st.pc.op = "__init__" THEN update_files(st) ELSE Returned(st)

\* update_files after the prompt of 'list files'
AfterListFiles(st) ==
  expect(sendline([st EXCEPT !.files = AddFiles(st.files, FileLines(st.before))],
                  "list comment \\ "),
         "list comment")

\* update_files after the prompt of 'list comment'; __init__ then sets
\* self.file_log = self.file_cmd_log = None
AfterListComment(st) ==
  LET st1 == [st EXCEPT !.files = AddComments(st.files, CommentLines(st.before))] IN
    IF st.pc.op = "__init__" THEN Returned([st1 EXCEPT !.file_log = FALSE])
    ELSE Returned(st1)

\* get_obs_details after its prompt, and what its caller does next
AfterListObservation(st) ==
  LET r == ObsDetails(st.files, st.pc.filename, st.before) IN
    IF r.err # "ok" THEN { Raised(st, r.err) }
    ELSE LET st1 == [st EXCEPT !.files = r.files] IN
           IF st.pc.op = "group_pointings" THEN InspectFrom(st1, st1.pc.todo)
           ELSE { Returned(st1) }

\* the last lines of write_files: the record of self.active_file gets the paths
RecordPaths(st) ==
  LET a == st.active_file[1] IN
    [st EXCEPT !.files[a].target_uvfits = Some(st.pc.tgt_path),
               !.files[a].cal_uvfits = Some(st.pc.cal_path)]

\* flagged_final folded by max as flagged_max is
RecordFinalFlaggingMax(st) ==
  LET final_flagging == _parse_flagging_results(Split(st.before, "\n")) IN
    IF final_flagging.err # "ok" THEN Raised(st, final_flagging.err)
    ELSE Returned([st EXCEPT !.files[st.active_file[1]].flagged_final =
                               PyMax(final_flagging.val, @)])

\* the last lines of update_flagging_info
RecordFinalFlagging(st) ==
  LET final_flagging == _parse_flagging_results(Split(st.before, "\n")) IN
    IF final_flagging.err # "ok" THEN Raised(st, final_flagging.err)
    ELSE Returned([st EXCEPT !.files[st.active_file[1]].flagged_final = final_flagging.val])

\* run_command after its prompt, and what its caller does next
AfterCommand(st) ==
  LET r == _parse_command_output(st.files, st.active_file, st.pc.command,
                                 Split(st.before, "\n"))
      st1 == [st EXCEPT !.files = r.files]
  IN
  IF r.err # "ok" THEN Raised(st1, r.err)
  ELSE CASE st.pc.op = "run_script" ->
              IF Len(st.pc.todo) = 0 THEN Returned(st1)
              ELSE run_command([st1 EXCEPT !.pc.todo = Tail(st.pc.todo)], st.pc.todo[1])
         [] st.pc.op = "set_active_file" -> get_obs_details(st1, st.pc.filename)
         [] st.pc.op = "write_files" -> Returned(RecordPaths(st1))
         [] st.pc.op = "update_flagging_info" -> RecordFinalFlagging(st1)
         [] OTHER -> Returned(st1)

\* expect raises pexpect.TIMEOUT: the prompt did not come
TimedOut(st) == [Raised(st, "TIMEOUT") EXCEPT !.stalled = TRUE, !.before = ""]

(***************************************************************************)
(* What the tool prints                                                    *)
(***************************************************************************)
RECURSIVE Concat(_)
Concat(ss) == IF Len(ss) = 0 THEN "" ELSE ss[1] \o Concat(Tail(ss))

\* the text ahead of the prompt: the echoed command, then the tool's lines
Echo(line) == line \o "\r\n"

\* 'list files': a blank line, a line for each file, three closing lines
ListFilesText(names) ==
  Echo("list files \\ ") \o "\r\n"
    \o Concat([i \in 1..Len(names) |-> names[i] \o "   120101 12:00  8.0h\r\n"])
    \o "\r\n Total obs time 16.0h\r\n\r\n"

\* 'list comment': a blank line, then name and comment for each file
ListCommentText(names) ==
  Echo("list comment \\ ") \o "\r\n"
    \o Concat([i \in 1..Len(names) |-> names[i] \o "   a comment\r\n"])

ListObservationText(filename, body) ==
  Echo("list observation " \o filename \o " \\ ") \o "\r\n" \o body

(***************************************************************************)
(* Actions.  `cat` is the catalogue of calls and tool outputs drawn from.  *)
(***************************************************************************)
CanCall(cat) == pc.op = "idle" /\ nsent < cat.max_sent

Start(op) == [Cur EXCEPT !.pc.op = op]

Call_switch_to_large_array(cat) ==
  /\ CanCall(cat)
  /\ Apply(switch_to_large_array(Start("switch_to_large_array")))

Call_update_files(cat) ==
  /\ CanCall(cat)
  /\ Apply(update_files(Start("update_files")))

Call_get_obs_details(cat) ==
  /\ CanCall(cat)
  /\ \E filename \in cat.names : Apply(get_obs_details(Start("get_obs_details"), filename))

Call_run_command(cat) ==
  /\ CanCall(cat)
  /\ \E command \in cat.commands : Apply(run_command(Start("run_command"), command))

Call_run_script(cat) ==
  /\ CanCall(cat)
  /\ \E script \in cat.scripts : Apply(run_script(Start("run_script"), script))

Call_set_active_file(cat) ==
  /\ CanCall(cat)
  /\ \E filename \in cat.active_names :
       Apply(set_active_file(Start("set_active_file"), filename))

Call_write_files(cat) ==
  /\ CanCall(cat)
  /\ \E rawfile \in cat.names, output_dir \in cat.output_dirs :
       Apply(write_files(Start("write_files"), rawfile, output_dir))

Call_update_flagging_info(cat) ==
  /\ CanCall(cat)
  /\ Apply(update_flagging_info(Start("update_flagging_info")))

Call_group_pointings(cat) ==
  /\ CanCall(cat)
  /\ \E tolerance \in cat.tolerances, order \in Orders(DOMAIN files) :
       \E st \in group_pointings(Start("group_pointings"), tolerance, order) : Apply(st)

Prompt_startup ==
  /\ pc.at = "startup"
  /\ Apply(AfterStartup(Matched(Cur, "")))

Prompt_set_def_la ==
  /\ pc.at = "set def la"
  /\ Apply(AfterSetDefLa(Matched(Cur, Echo("set def la"))))

Prompt_list_files(cat) ==
  /\ pc.at = "list files"
  /\ \E names \in cat.listings[tool_array] :
       Apply(AfterListFiles(Matched(Cur, ListFilesText(names))))

Prompt_list_comment(cat) ==
  /\ pc.at = "list comment"
  /\ \E names \in cat.comments :
       Apply(AfterListComment(Matched(Cur, ListCommentText(names))))

Prompt_list_observation(cat) ==
  /\ pc.at = "list observation"
  /\ \E body \in cat.observations :
       \E st \in AfterListObservation(Matched(Cur, ListObservationText(pc.filename, body))) :
         Apply(st)

Prompt_run_command(cat) ==
  /\ pc.at = "run_command"
  /\ \E body \in cat.outputs :
       Apply(AfterCommand(Matched(Cur, Echo(pc.command) \o body)))

Timeout ==
  /\ pc.at # ""
  /\ Apply(TimedOut(Cur))

InitWith(cat) ==
  /\ files = EmptyFiles
  /\ active_file = None
  /\ file_log = FALSE
  /\ child = "awaiting"
  /\ before = ""
  /\ pc \in {[Idle EXCEPT !.op = "__init__", !.at = "startup", !.array = a] : a \in cat.arrays}
  /\ result = "ok"
  /\ lastop = ""
  /\ nsent = 0
  /\ last_sent = ""
  /\ stalled = FALSE
  /\ named_groups = NoNamedGroups
  /\ group_dict = NoGroups
  /\ tool_array = "SA"

NextWith(cat) ==
  \/ Call_switch_to_large_array(cat)
  \/ Call_update_files(cat)
  \/ Call_get_obs_details(cat)
  \/ Call_run_command(cat)
  \/ Call_run_script(cat)
  \/ Call_set_active_file(cat)
  \/ Call_write_files(cat)
  \/ Call_update_flagging_info(cat)
  \/ Call_group_pointings(cat)
  \/ Prompt_startup
  \/ Prompt_set_def_la
  \/ Prompt_list_files(cat)
  \/ Prompt_list_comment(cat)
  \/ Prompt_list_observation(cat)
  \/ Prompt_run_command(cat)
  \/ Timeout

(***************************************************************************)
(* Catalogues                                                              *)
(***************************************************************************)
\* what 'list observation' prints: a Tracking line with a negative and with
\* a positive declination, the calibrator line
TrackingSouth == "Tracking    : 12 30 00  -45 00 00  J2000\r\n"

TrackingNorth == "Tracking    : 12 30 00   45 00 00  J2000\r\n"

WithCalibrator == " Observed with calibrator J1234+567\r\n"

NoObservation == " no such observation\r\n"

\* what the processing commands print
RainLine == " Mean amplitude correction factor    1.023\r\n"

FlagLineLow == " Total of 5.0% samples flagged\r\n"

FlagLineHigh == " Total of 12.5% samples flagged\r\n"

NoiseLine == " estimated noise 0.002 Jy\r\n"

\* Tracking lines on the sky positions the grouping is tried on, right
\* ascension in hours and declination in degrees:
\* (0, 0), (0.1, 0.1), (0, 0.4), (0, 0.8), (10, 10) and (10, 10.5) degrees
TrackingAt(ra, dec) == "Tracking    : " \o ra \o "   " \o dec \o "  J2000\r\n"

SkyPositions ==
  { <<"00 00 00", "00 00 00">>, <<"00 00 24", "00 06 00">>, <<"00 00 00", "00 24 00">>,
    <<"00 00 00", "00 48 00">>, <<"00 40 00", "10 00 00">>, <<"00 40 00", "10 30 00">> }

\* pointing_tolerance_in_degrees=0.5, in arcseconds
DefaultTolerance == 1800

\* The session catalogue: every operation, the prompt may fail to come.
CatSession ==
  [max_sent |-> MaxSent,
   arrays |-> {"LA", "SA", "XX"},
   listings |-> [a \in {"SA", "LA"} |->
                   IF a = "SA" THEN {<<"A-1">>, <<"A-1", "B-1">>} ELSE {<<"B-1">>}],
   comments |-> {<<"A-1">>},
   names |-> {"A-1", "B-1"},
   active_names |-> {"A-1", " B-1 "},
   output_dirs |-> {"/out"},
   commands |-> {"flag all \\ ", "apply rain \\ "},
   scripts |-> {"flag all \\ \nreweight \\ "},
   outputs |-> {"", FlagLineLow \o NoiseLine},
   observations |-> {TrackingSouth \o WithCalibrator, NoObservation},
   tolerances |-> {DefaultTolerance}]

\* The parsing catalogue: every route of the dispatcher, alone and in pairs,
\* on outputs that hold and that lack each fact.
CatParse ==
  [max_sent |-> MaxSentParse,
   arrays |-> {"SA"},
   listings |-> [a \in {"SA", "LA"} |-> {<<"A-1", "flagged-2">>}],
   comments |-> {<<"A-1">>},
   names |-> {"A-1", "Z-9"},
   active_names |-> {"A-1", "flagged-2", "Z-9"},
   output_dirs |-> {"/out"},
   commands |-> {"apply rain \\ ", "flag all \\ ", "reweight \\ ",
                 "flag reweight \\ ", "smooth 1 \\ "},
   scripts |-> {"apply rain \\ \nreweight \\ "},
   outputs |-> {"", RainLine \o FlagLineHigh, FlagLineLow, NoiseLine},
   observations |-> {TrackingSouth \o WithCalibrator, TrackingNorth, NoObservation},
   tolerances |-> {DefaultTolerance}]

\* The grouping catalogue: three files on the sky positions.
CatGroup ==
  [max_sent |-> MaxSentGroup,
   arrays |-> {"SA"},
   listings |-> [a \in {"SA", "LA"} |-> {<<"A-1", "B-1", "C-1">>, <<"A-1", "A-2", "B-1">>}],
   comments |-> {<<"A-1">>},
   names |-> {"A-1"},
   active_names |-> {"A-1"},
   output_dirs |-> {"/out"},
   commands |-> {"smooth 1 \\ "},
   scripts |-> {"smooth 1 \\ "},
   outputs |-> {""},
   observations |-> {TrackingAt(p[1], p[2]) : p \in SkyPositions} \cup {NoObservation},
   tolerances |-> {DefaultTolerance}]

Init == InitWith(CatSession)

Next == NextWith(CatSession)

Spec == Init /\ [][Next]_vars

InitParse == InitWith(CatParse)

\* construction and the operations that parse what the tool prints
NextParse ==
  \/ Call_get_obs_details(CatParse)
  \/ Call_run_command(CatParse)
  \/ Call_run_script(CatParse)
  \/ Call_set_active_file(CatParse)
  \/ Call_update_flagging_info(CatParse)
  \/ Prompt_startup
  \/ Prompt_list_files(CatParse)
  \/ Prompt_list_comment(CatParse)
  \/ Prompt_list_observation(CatParse)
  \/ Prompt_run_command(CatParse)

SpecParse == InitParse /\ [][NextParse]_vars

InitGroup == InitWith(CatGroup)

\* construction, inspection and grouping
NextGroup ==
  \/ Call_get_obs_details(CatGroup)
  \/ Call_group_pointings(CatGroup)
  \/ Prompt_startup
  \/ Prompt_list_files(CatGroup)
  \/ Prompt_list_comment(CatGroup)
  \/ Prompt_list_observation(CatGroup)

SpecGroup == InitGroup /\ [][NextGroup]_vars

\* A Tracking line as 'list observation' prints it: two spaces ahead of a
\* negative declination, three ahead of a positive one, then the frame.
TrackingLine(ra, dec, frame) ==
  "Tracking    : " \o ra \o (IF Char(dec, 1) = "-" THEN "  " ELSE "   ") \o dec
    \o "  " \o frame \o "\r\n"

TextRas == {"12 30 00"}

TextDecs == {"-45 00 00", "45 00 00"}

\* reference frames: the expected one and two others
TextFrames == {"J2000", "B1950", "B1950.0"}

\* The text catalogue: listings of no, one, two and three files, and the
\* Tracking lines of both declination signs in every frame.
CatText ==
  [max_sent |-> MaxSentText,
   arrays |-> {"SA"},
   listings |-> [a \in {"SA", "LA"} |->
                   {<< >>, <<"A-1">>, <<"A-1", "B-1">>, <<"A-1", "B-1", "C-1">>}],
   comments |-> {<<"A-1">>},
   names |-> {"A-1"},
   active_names |-> {"A-1"},
   output_dirs |-> {"/out"},
   commands |-> {"smooth 1 \\ "},
   scripts |-> {"smooth 1 \\ "},
   outputs |-> {""},
   observations |-> {TrackingLine(ra, dec, frame) :
                       ra \in TextRas, dec \in TextDecs, frame \in TextFrames},
   tolerances |-> {DefaultTolerance}]

InitText == InitWith(CatText)

\* construction, listing and inspection
NextText ==
  \/ Call_update_files(CatText)
  \/ Call_get_obs_details(CatText)
  \/ Prompt_startup
  \/ Prompt_list_files(CatText)
  \/ Prompt_list_comment(CatText)
  \/ Prompt_list_observation(CatText)

SpecText == InitText /\ [][NextText]_vars

\* Two listed files with the observations the tool prints for them.
CatWrite ==
  [max_sent |-> MaxSentWrite,
   arrays |-> {"SA"},
   listings |-> [a \in {"SA", "LA"} |-> {<<"A-1", "B-1">>}],
   comments |-> {<<"A-1">>},
   names |-> {"A-1", "B-1"},
   active_names |-> {"A-1", "B-1"},
   output_dirs |-> {"/out"},
   commands |-> {"smooth 1 \\ "},
   scripts |-> {"smooth 1 \\ "},
   outputs |-> {""},
   observations |-> {TrackingSouth \o WithCalibrator, NoObservation},
   tolerances |-> {DefaultTolerance}]

InitWrite == InitWith(CatWrite)

\* construction, selection, inspection and the writing of the products
NextWrite ==
  \/ Call_set_active_file(CatWrite)
  \/ Call_get_obs_details(CatWrite)
  \/ Call_write_files(CatWrite)
  \/ Prompt_startup
  \/ Prompt_list_files(CatWrite)
  \/ Prompt_list_comment(CatWrite)
  \/ Prompt_list_observation(CatWrite)
  \/ Prompt_run_command(CatWrite)

SpecWrite == InitWrite /\ [][NextWrite]_vars

(***************************************************************************)
(* Properties                                                              *)
(***************************************************************************)
\* an operation has ended and none is in progress
AtReturn == pc.op = "idle" /\ lastop # ""

\* the lines of child.before
OutputLines == Split(before, "\n")

\* C1: as long as every prompt has come (no expect has timed out), the child
\* is in the state "prompt just matched" whenever an operation has returned
\* or raised.
ReadyAtEveryReturn == (AtReturn /\ ~stalled) => child = "ready"

\* an operation has raised a parse error after its prompt was matched
ParseFailureReturned ==
  /\ AtReturn /\ ~stalled
  /\ lastop = "run_command" /\ result = "ValueError"
  /\ child = "ready"

\* C2: once an expect has timed out, no further line is written to the tool
\* by this object.
NoWriteAfterStall == [][stalled => nsent' = nsent]_vars

\* a <= b for optional numbers, None below every number
AtMost(a, b) == a = None \/ (b # None /\ a[1] <= b[1])

\* C3: in every step, the flagged_max of every record that stays in the
\* registry is unchanged or replaced by a larger value; it is never lowered
\* and never cleared.
FlaggedMaxNeverDecreases ==
  [][\A f \in DOMAIN files \cap DOMAIN files' :
       AtMost(files[f].flagged_max, files'[f].flagged_max)]_vars

\* the record of the active file exists
HasActiveRecord == active_file # None /\ active_file[1] \in DOMAIN files

\* a flag-routed command has just returned a percentage below the stored one
SmallerFlaggingIgnored ==
  /\ AtReturn /\ result = "ok" /\ lastop \in {"run_command", "update_flagging_info"}
  /\ StrIn("flag", last_sent)
  /\ HasActiveRecord
  /\ LET parsed == _parse_flagging_results(OutputLines).val
         stored == files[active_file[1]].flagged_max
     IN parsed # None /\ stored # None /\ parsed[1] < stored[1]

Range(seq) == {seq[i] : i \in 1..Len(seq)}

\* group_pointings has just returned
Grouped == AtReturn /\ lastop = "group_pointings" /\ result = "ok"

\* C4: when group_pointings has returned, every dataset is in the member list
\* of exactly one group.
EachDatasetInOneGroup ==
  Grouped =>
    \A f \in DOMAIN files :
      Cardinality({g \in DOMAIN group_dict : f \in Range(group_dict[g])}) = 1

\* for the files of the registry, whether two of them are separated by less
\* than the default tolerance
Closeness ==
  [f \in DOMAIN files |->
    [g \in DOMAIN files |->
      SepUpper(files[f].pointing[1], files[g].pointing[1]) < DefaultTolerance]]

ClusterOf(close, f) == {g \in DOMAIN close : close[f][g]}

Clusters(close) == {ClusterOf(close, f) : f \in DOMAIN close}

\* the files fall into clusters: closer than the tolerance within one, at or
\* beyond it across two
WellSeparated(close) ==
  \A f, g \in DOMAIN close : close[f][g] => ClusterOf(close, f) = ClusterOf(close, g)

\* the name derived from a set of files: its least member up to the first '-'
DerivedName(S) ==
  Split(CHOOSE n \in S : \A m \in S : m = n \/ StrLess(n, m), "-")[1]

ClusterNamesDiffer(clusters) ==
  \A c, d \in clusters : c # d => DerivedName(c) # DerivedName(d)

MemberSets == {Range(named_groups[n].files) : n \in DOMAIN named_groups}

\* C5: when the files fall into clusters whose derived names differ, the
\* groups group_pointings returns have exactly the clusters as their member
\* sets, each member listed once, whatever the iteration orders were.
ClustersReturned ==
  Grouped =>
    LET close == Closeness
        clusters == Clusters(close)
    IN (WellSeparated(close) /\ ClusterNamesDiffer(clusters)) =>
         /\ MemberSets = clusters
         /\ \A n \in DOMAIN named_groups :
              Len(named_groups[n].files) = Cardinality(Range(named_groups[n].files))

\* A(0,0), B(0.1,0.1), C(10,10) grouped as {A, B} and {C}
ExampleGrouped ==
  /\ Grouped
  /\ DOMAIN files = {"A-1", "B-1", "C-1"}
  /\ files["A-1"].pointing = Some([ra |-> "00 00 00", dec |-> "00 00 00"])
  /\ files["B-1"].pointing = Some([ra |-> "00 00 24", dec |-> "00 06 00"])
  /\ files["C-1"].pointing = Some([ra |-> "00 40 00", dec |-> "10 00 00"])
  /\ MemberSets = {{"A-1", "B-1"}, {"C-1"}}

\* every file carries the name of a returned group that lists it, and the
\* returned lists cover the registry
AllNamedAndListed ==
  /\ \A f \in DOMAIN files :
       /\ files[f].group_name # None
       /\ files[f].group_name[1] \in DOMAIN named_groups
       /\ f \in Range(named_groups[files[f].group_name[1]].files)
  /\ UNION MemberSets = DOMAIN files

\* C6 as claimed: after group_pointings every file is named and listed, for
\* all registries.
EveryDatasetNamed == Grouped => AllNamedAndListed

\* no two of the groups built derive the same name
NoNameCollision ==
  \A p, q \in DOMAIN group_dict :
    p # q => GroupName(group_dict[p]) # GroupName(group_dict[q])

\* C6 as amended: after group_pointings the groups returned are groups built,
\* one for each name derived; every file listed by a returned group carries
\* the name of a returned group that lists it; and every file is named and
\* listed provided no two of the groups built derive the same name (of the
\* groups that do, one replaces the others, whose files are not returned).
EveryDatasetNamedUnlessCollision ==
  Grouped =>
    /\ \A n \in DOMAIN named_groups :
         \E p \in DOMAIN group_dict :
           /\ GroupName(group_dict[p]) = n
           /\ named_groups[n].files = group_dict[p]
    /\ \A p \in DOMAIN group_dict : GroupName(group_dict[p]) \in DOMAIN named_groups
    /\ \A f \in UNION MemberSets :
         /\ files[f].group_name # None
         /\ files[f].group_name[1] \in DOMAIN named_groups
         /\ f \in Range(named_groups[files[f].group_name[1]].files)
    /\ NoNameCollision => AllNamedAndListed

\* two groups of different names returned, every file named
TwoGroupsNamed ==
  /\ Grouped /\ NoNameCollision
  /\ Cardinality(DOMAIN named_groups) >= 2
  /\ \A f \in DOMAIN files : files[f].group_name # None

\* switch_to_large_array has just returned
Switched == AtReturn /\ lastop = "switch_to_large_array" /\ result = "ok"

\* C7 as claimed: when switch_to_large_array returns, the registry holds
\* exactly the files the tool lists for the array now selected, each with a
\* fresh record.
SwitchRebuildsRegistry ==
  Switched =>
    /\ \E names \in CatSession.listings[tool_array] : DOMAIN files = Range(names)
    /\ \A f \in DOMAIN files : files[f] = FreshRecord

\* C7 as amended: when switch_to_large_array returns, the registry is empty;
\* the files of the new array are in it once update_files has run, as it
\* does in __init__.
SwitchEmptiesRegistry ==
  /\ Switched => DOMAIN files = {}
  /\ (AtReturn /\ lastop = "__init__" /\ result = "ok") =>
       \E names \in CatSession.listings[tool_array] : DOMAIN files = Range(names)

\* the array was switched after a file had been made active
SwitchedAfterUse == Switched /\ active_file # None /\ DOMAIN files = {}

\* C8: outside the resets (__init__ and the reset of switch_to_large_array)
\* no step removes a key of the registry, a key is added only by the
\* 'list files' step of update_files, and update_files leaves every record
\* already present as it was, but for its comment.
KeysOnlyGrow ==
  [][LET reset == pc.at = "startup" \/ (nsent' = nsent + 1 /\ last_sent' = "set def la") IN
       /\ ~reset => DOMAIN files \subseteq DOMAIN files'
       /\ (~reset /\ DOMAIN files' # DOMAIN files) => pc.at = "list files"
       /\ pc.at \in {"list files", "list comment"} =>
            \A f \in DOMAIN files \cap DOMAIN files' :
              files'[f] = [files[f] EXCEPT !.comment = files'[f].comment]]_vars

\* update_files has returned with a record that holds a pointing next to a
\* fresh one
KnownRecordKept ==
  /\ AtReturn /\ lastop = "update_files" /\ result = "ok"
  /\ \E f, g \in DOMAIN files : files[f].pointing # None /\ files[g] = FreshRecord

NoLineWith(lines, marker) == \A i \in 1..Len(lines) : ~StrIn(marker, lines[i])

\* C9: a step that matches the prompt of a 'rain' (a 'reweight') command on
\* an output without a 'Mean amplitude correction factor' (an 'estimated
\* noise') line, or the prompt of a 'list observation' on a listing without
\* a 'Tracking' line, ends the operation with an error and leaves the rain
\* (est_noise, pointing) of every record as it was; the error is ValueError,
\* the parse error, whenever the file the step is about has a record.
MandatoryFactNeverDefaulted ==
  [][LET lines == Split(before', "\n")
         aborted == pc'.op = "idle" /\ lastop' = pc.op /\ result' # "ok"
         command == pc.at = "run_command" /\ child' = "ready"
     IN
       /\ (command /\ StrIn("rain", pc.command)
              /\ NoLineWith(lines, "Mean amplitude correction factor")) =>
            /\ aborted
            /\ HasActiveRecord => result' = "ValueError"
            /\ \A f \in DOMAIN files :
                 f \in DOMAIN files' /\ files'[f].rain = files[f].rain
       /\ (command /\ StrIn("reweight", pc.command)
              /\ NoLineWith(lines, "estimated noise")) =>
            /\ aborted
            /\ HasActiveRecord => result' = "ValueError"
            /\ \A f \in DOMAIN files :
                 f \in DOMAIN files' /\ files'[f].est_noise = files[f].est_noise
       /\ (pc.at = "list observation" /\ child' = "ready"
              /\ NoLineWith(ListFrom(lines, 2), "Tracking")) =>
            /\ aborted
            /\ pc.filename \in DOMAIN files => result' = "ValueError"
            /\ \A f \in DOMAIN files :
                 f \in DOMAIN files' /\ files'[f].pointing = files[f].pointing]_vars

\* a rain command has failed on an output without the line, and the
\* correction stored before is still there
RainFailureKeepsValue ==
  /\ AtReturn /\ lastop = "run_command" /\ result = "ValueError"
  /\ StrIn("rain", last_sent)
  /\ NoLineWith(OutputLines, "Mean amplitude correction factor")
  /\ HasActiveRecord
  /\ files[active_file[1]].rain # None

NoFlaggingLine(lines) ==
  \A i \in 1..Len(lines) :
    ~(StrIn("samples flagged", lines[i]) /\ StrIn("Total of", lines[i]))

\* what C10 says of a step, the flag-routed commands restricted by `also`
OptionalFactAbsent(also(_, _)) ==
  LET lines == Split(before', "\n")
      notRaised == pc'.op # "idle" \/ result' = "ok"
  IN
    /\ (pc.at = "list observation" /\ child' = "ready" /\ pc.filename \in DOMAIN files
           /\ _parse_coords(pc.filename, ListFrom(lines, 2)).err = "ok"
           /\ NoLineWith(ListFrom(lines, 2), "with calibrator")) =>
         /\ notRaised
         /\ files'[pc.filename].calibrator = None
    /\ (pc.at = "run_command" /\ child' = "ready" /\ HasActiveRecord
           /\ StrIn("flag", pc.command) /\ NoFlaggingLine(lines)
           /\ also(pc.command, lines)) =>
         /\ notRaised
         /\ files'[active_file[1]].flagged_max = files[active_file[1]].flagged_max
         /\ pc.op = "update_flagging_info" => files'[active_file[1]].flagged_final = None

\* C10 as claimed: a listing with a 'Tracking' line and no 'with calibrator'
\* line leaves the calibrator None without an error, and every flag-routed
\* command whose output has no flagging line returns normally with no
\* flagging value.
OptionalFactNeverAnError == [][OptionalFactAbsent(LAMBDA c, l : TRUE)]_vars

\* the mandatory facts the command is also routed to are in the output
MandatoryFactsPresent(command, lines) ==
  /\ StrIn("rain", command) => _parse_rain_results(lines).err = "ok"
  /\ StrIn("reweight", command) => _parse_reweight_results(lines).err = "ok"

\* C10 as amended: the same, for the flag-routed commands that are not also
\* routed to the rain or the reweight parser with that fact missing.
OptionalFactAloneNeverAnError == [][OptionalFactAbsent(MandatoryFactsPresent)]_vars

\* update_flagging_info has returned on an output without a flagging line:
\* flagged_final is None and the maximum stored before is still there
FinalFlaggingAbsent ==
  /\ AtReturn /\ lastop = "update_flagging_info" /\ result = "ok"
  /\ NoFlaggingLine(OutputLines)
  /\ HasActiveRecord
  /\ files[active_file[1]].flagged_final = None
  /\ files[active_file[1]].flagged_max # None

\* the command text holds none of the routing words
Unrouted(command) ==
  ~StrIn("rain", command) /\ ~StrIn("flag", command) /\ ~StrIn("reweight", command)

\* a step that matches the prompt of a run_command whose command is unrouted
\* returns normally and leaves the registry as it was, where `scope` holds
UnmatchedStep(scope) ==
  (pc.op = "run_command" /\ pc.at = "run_command" /\ child' = "ready"
     /\ active_file # None /\ Unrouted(pc.command) /\ scope) =>
    /\ pc'.op = "idle" /\ lastop' = "run_command" /\ result' = "ok"
    /\ files' = files

\* C11 as claimed: with an active file set, a run_command whose command holds
\* none of 'rain', 'flag', 'reweight' returns without raising and leaves the
\* registry unchanged, whatever the tool printed.
UnmatchedNeverAnError == [][UnmatchedStep(TRUE)]_vars

\* C11 as amended: the same where the active file has a record in the
\* registry; where it has none the registry is unchanged as well (and the
\* call raises KeyError).
UnmatchedUpdatesNothing ==
  [][/\ UnmatchedStep(HasActiveRecord)
     /\ (pc.at = "run_command" /\ pc.op = "run_command" /\ Unrouted(pc.command)) =>
          files' = files]_vars

\* an unrouted command has returned on an output with a flagging line, and
\* the active record holds no flagging
UnmatchedReturned ==
  /\ AtReturn /\ lastop = "run_command" /\ result = "ok"
  /\ Unrouted(last_sent)
  /\ ~NoFlaggingLine(OutputLines)
  /\ HasActiveRecord
  /\ files[active_file[1]].flagged_max = None

\* C12: in every step and for every record that stays in the registry, rain
\* changes only on the prompt of a command holding 'rain', est_noise only on
\* that of a command holding 'reweight', flagged_final only in
\* update_flagging_info, pointing and calibrator only on the prompt of a
\* 'list observation', group_name only as group_pointings returns, the output
\* paths only in write_files; no step of set_active_file changes rain,
\* flagged_max or est_noise; and flagged_max changes only to a larger value.
OneWriterPerField ==
  [][\A f \in DOMAIN files \cap DOMAIN files' :
       LET old == files[f]
           new == files'[f]
           command == pc.at = "run_command" /\ pc.op # "set_active_file"
       IN
         /\ new.rain # old.rain => command /\ StrIn("rain", pc.command)
         /\ new.est_noise # old.est_noise => command /\ StrIn("reweight", pc.command)
         /\ new.flagged_final # old.flagged_final => pc.op = "update_flagging_info"
         /\ (new.pointing # old.pointing \/ new.calibrator # old.calibrator) =>
              pc.at = "list observation"
         /\ new.group_name # old.group_name =>
              pc'.op = "idle" /\ lastop' = "group_pointings"
         /\ (new.target_uvfits # old.target_uvfits \/ new.cal_uvfits # old.cal_uvfits) =>
              pc.op = "write_files"
         /\ pc.op = "set_active_file" =>
              /\ new.rain = old.rain
              /\ new.flagged_max = old.flagged_max
              /\ new.est_noise = old.est_noise
         /\ new.flagged_max # old.flagged_max =>
              /\ AtMost(old.flagged_max, new.flagged_max)
              /\ pc.at = "run_command" /\ StrIn("flag", pc.command)]_vars

\* C13: a step that parses a 'list files' block of 2 header lines, N data
\* lines and 4 footer lines into an empty registry leaves exactly N keys, the
\* first whitespace-delimited tokens of the data lines, each with a fresh
\* record.
ListedExactly ==
  [][(pc.at = "list files" /\ ~stalled' /\ DOMAIN files = {}) =>
       LET lines == Split(before', "\n")
           N == Len(lines) - 6
       IN /\ N >= 0
          /\ DOMAIN files' = {Tokens(lines[i])[1] : i \in 3..(N + 2)}
          /\ Cardinality(DOMAIN files') = N
          /\ \A f \in DOMAIN files' : files'[f] = FreshRecord]_vars

\* __init__ has parsed a block of three data lines into three keys
ThreeListed ==
  /\ pc.op = "__init__" /\ pc.at = "list comment"
  /\ Len(Split(before, "\n")) = 9
  /\ Cardinality(DOMAIN files) = 3

\* C14: a step that parses the listing of a known file with the Tracking line
\* of <ra>, <dec> and a frame, under the separator of the sign of <dec>,
\* leaves the pointing (<ra>, <dec>) without raising, whatever the frame;
\* it warns exactly when the line does not hold 'J2000'.
CoordinatesParsed ==
  [][\A ra \in TextRas, dec \in TextDecs, frame \in TextFrames :
       (/\ pc.at = "list observation" /\ child' = "ready"
        /\ pc.filename \in DOMAIN files
        /\ before' = ListObservationText(pc.filename, TrackingLine(ra, dec, frame))) =>
         /\ pc'.op # "idle" \/ result' = "ok"
         /\ files'[pc.filename].pointing = Some([ra |-> ra, dec |-> dec])
         /\ CoordsWarning(ListFrom(Split(before', "\n"), 2)) = (frame # "J2000")]_vars

\* C15: a step that matches the prompt of update_flagging_info for an active
\* file with a record returns normally and leaves as flagged_final of that
\* record what the flagging parser finds in the output of this call, be it
\* smaller than the value before or None.
FinalFlaggingOverwritten ==
  [][(pc.op = "update_flagging_info" /\ pc.at = "run_command" /\ ~stalled'
        /\ HasActiveRecord) =>
       /\ pc'.op = "idle" /\ lastop' = "update_flagging_info" /\ result' = "ok"
       /\ files'[active_file[1]].flagged_final =
            _parse_flagging_results(Split(before', "\n")).val]_vars

\* update_flagging_info has returned with a final flagging below the maximum
\* seen for the file
FinalBelowMax ==
  /\ AtReturn /\ lastop = "update_flagging_info" /\ result = "ok"
  /\ active_file = Some("A-1") /\ HasActiveRecord
  /\ files["A-1"].flagged_final # None
  /\ files["A-1"].flagged_max # None
  /\ files["A-1"].flagged_final[1] < files["A-1"].flagged_max[1]

\* C16: every step writes at most one line to the tool; the first line is
\* written by the step that matches the startup prompt; and a step that
\* starts an operation writes only when the prompt after the line before has
\* been matched (the steps within an operation write after matching theirs).
WritesAlternateWithPrompts ==
  [][nsent' # nsent =>
       /\ nsent' = nsent + 1
       /\ nsent = 0 => pc.at = "startup"
       /\ pc.at = "" => child = "ready"]_vars

\* C17: a step after which group_pointings waits for a prompt has written one
\* 'list observation' line, for a file without a pointing, every file ahead
\* of it in the iteration having one; a step that ends group_pointings
\* normally writes no line and leaves every file with a pointing; a step
\* that ends it otherwise ends it with ValueError, within the inspections,
\* and changes no group_name.
InspectsMissingOnly ==
  [][/\ (pc'.op = "group_pointings" /\ pc'.at = "list observation") =>
          LET f == pc'.filename IN
            /\ nsent' = nsent + 1
            /\ last_sent' = "list observation " \o f \o " \\ "
            /\ f \in DOMAIN files' /\ files'[f].pointing = None
            /\ \A g \in Range(pc'.order) \ ({f} \cup Range(pc'.todo)) :
                 files'[g].pointing # None
     /\ (pc'.op = "idle" /\ lastop' = "group_pointings") =>
          IF result' = "ok"
          THEN /\ nsent' = nsent
               /\ \A f \in DOMAIN files' : files'[f].pointing # None
          ELSE /\ result' = "ValueError"
               /\ pc.op = "group_pointings" /\ pc.at = "list observation"
               /\ \A f \in DOMAIN files :
                    f \in DOMAIN files' /\ files'[f].group_name = files[f].group_name]_vars

\* group_pointings waits for the listing of the last of three files, having
\* written two lines: the pointing of the third was known
InspectedTwoOfThree ==
  /\ pc.op = "group_pointings" /\ pc.at = "list observation"
  /\ lastop = "get_obs_details" /\ result = "ok"
  /\ Cardinality(DOMAIN files) = 3 /\ Len(pc.todo) = 0
  /\ nsent = 5
  /\ Cardinality({f \in DOMAIN files : files[f].pointing = None}) = 1

\* C18: in every state every record with a flagged_final has a flagged_max,
\* and flagged_final <= flagged_max.
FinalAtMostMax ==
  \A f \in DOMAIN files :
    files[f].flagged_final # None =>
      /\ files[f].flagged_max # None
      /\ files[f].flagged_final[1] <= files[f].flagged_max[1]

\* update_flagging_info has returned with its percentage as flagged_final
\* and as flagged_max
FinalFoldedIntoMax ==
  /\ AtReturn /\ lastop = "update_flagging_info" /\ result = "ok"
  /\ HasActiveRecord
  /\ files[active_file[1]].flagged_final # None
  /\ files[active_file[1]].flagged_final = files[active_file[1]].flagged_max

\* a step on which a run_command call for an active file with a record raises
\* the parse error
CommandFails ==
  /\ pc.op = "run_command" /\ pc.at = "run_command" /\ HasActiveRecord
  /\ pc'.op = "idle" /\ lastop' = "run_command" /\ result' = "ValueError"

\* C19 as claimed: when run_command raises, every field of the active record
\* has the value it had before the call, for every command text.
FailureChangesNothing ==
  [][CommandFails => files'[active_file[1]] = files[active_file[1]]]_vars

\* C19 as amended: when run_command raises, the routes are taken in the order
\* rain, flag, reweight up to the one that fails: est_noise and every field
\* that is not routed keep their values; rain changes only when the command
\* holds 'rain' and its line was parsed, to the value parsed; flagged_max
\* changes only when the command holds 'flag' and the rain route did not
\* fail, to the maximum of the old and the parsed value; a command that
\* holds exactly one routing word changes nothing.
FailureKeepsLaterRoutes ==
  [][CommandFails =>
       LET old == files[active_file[1]]
           new == files'[active_file[1]]
           lines == Split(before', "\n")
           rain == _parse_rain_results(lines)
           routes == {w \in {"rain", "flag", "reweight"} : StrIn(w, pc.command)}
       IN /\ new = [old EXCEPT !.rain = new.rain, !.flagged_max = new.flagged_max]
          /\ new.rain # old.rain =>
               "rain" \in routes /\ rain.err = "ok" /\ new.rain = rain.val
          /\ new.flagged_max # old.flagged_max =>
               /\ "flag" \in routes
               /\ "rain" \in routes => rain.err = "ok"
               /\ new.flagged_max =
                    PyMax(_parse_flagging_results(lines).val, old.flagged_max)
          /\ Cardinality(routes) = 1 => new = old]_vars

\* 'flag reweight' has failed for want of the noise line, and the flagging
\* of its output is on the record
FlaggingKeptOnFailure ==
  /\ AtReturn /\ lastop = "run_command" /\ result = "ValueError"
  /\ last_sent = "flag reweight \\ " /\ nsent = 5
  /\ active_file = Some("A-1") /\ HasActiveRecord
  /\ files["A-1"].flagged_max # None
  /\ files["A-1"].flagged_max = _parse_flagging_results(OutputLines).val
  /\ files["A-1"].est_noise = None

\* a step on which write_files returns to its caller
WriteReturns ==
  /\ pc.op = "write_files" /\ pc.at = "run_command"
  /\ pc'.op = "idle" /\ lastop' = "write_files" /\ result' = "ok"

\* C20: when write_files(rawfile, output_dir) returns, the record of rawfile
\* holds the two paths derived from rawfile and output_dir, and the path
\* fields of every other record are what they were, whichever file is
\* active.
PathsOnOwnRecord ==
  [][WriteReturns =>
       /\ files'[pc.filename].target_uvfits = Some(pc.tgt_path)
       /\ files'[pc.filename].cal_uvfits = Some(pc.cal_path)
       /\ \A f \in DOMAIN files \ {pc.filename} :
            /\ files'[f].target_uvfits = files[f].target_uvfits
            /\ files'[f].cal_uvfits = files[f].cal_uvfits]_vars
====
